---------------------------- MODULE Spec2Model ----------------------------
(***************************************************************************)
(* The motion-steered snake game of src/utils/visionUtils.ts lines         *)
(* 610-1108 (the SnakeGame component with the start countdown): the run    *)
(* controller (IDLE, countdown, PLAYING, GAME_OVER), the per-frame loop    *)
(* (smoothing, direction arbitration, variable-timestep advance), the      *)
(* snake simulation and the leaderboard store.                             *)
(*                                                                         *)
(* React state is a variable per useState cell, refs are a variable per    *)
(* useRef cell.  A handler's setState calls are batched: they are applied  *)
(* in the render that follows the handler, and the effects of that render  *)
(* (the start/stop-loop effect of lines 918-925) run with it, before the   *)
(* next animation frame.  Each action below is a handler together with     *)
(* that render.                                                            *)
(*                                                                         *)
(* The smoothed vector and the raw motion vector are floating point in     *)
(* the source; here they are fixed point, Scale units to 1.0, and the      *)
(* products are truncated toward zero.  Math.random() is a rational        *)
(* <<num, den>> with 0 <= num < den.                                       *)
(***************************************************************************)
EXTENDS Integers, Sequences, FiniteSets, TLC

-----------------------------------------------------------------------------
(* Bounds of the model. *)

\* loop ticks (animation frames) explored in one session
MaxTicks == 5
\* frames of the loop in a replay
MaxReplayTicks == 1
\* snapshots counted in one 500 ms bucket
MaxSnapshots == 3
\* frames of the loop fired after the run has ended
MaxLate == 1
\* accepted start actions (runs) in one session
MaxRuns == 3
\* changes of the viewport width in one session
MaxResizes == 1
\* largest score the speed policy is evaluated at
MaxSpeedScore == 45
\* game-overs of one leaderboard history
MaxSaves == 12

\* fixed-point units to 1.0
Scale == 10 * 10 * 10

-----------------------------------------------------------------------------
(* Program constants. *)

BASE_SPEED == 250
SPEED_DECREMENT == 5
MIN_SPEED == 60
\* the dead zone 0.3 of the direction logic
THRESHOLD == (3 * Scale) \div 10
\* window.innerWidth < 640 selects the 15x15 board
NARROW_BELOW == 640
\* .slice(0, 10)
TOP_N == 10
\* setInterval(..., 1000)
COUNTDOWN_PERIOD == 1000
\* let count = 3
COUNTDOWN_FROM == 3

Pos(px, py) == [x |-> px, y |-> py]

INITIAL_SNAKE == <<Pos(10, 10)>>
\* useRef<Position>({ x: 15, y: 5 })
INITIAL_FOOD == Pos(15, 5)

Directions == {"UP", "DOWN", "LEFT", "RIGHT"}

-----------------------------------------------------------------------------
(* Inputs. *)

\* viewport widths: one below and one above the 640 breakpoint
WindowWidths == {500, 800}
\* frame-to-frame time steps in ms: a short frame gap and a long one
TickDeltas == {80, 250}
\* results of Math.random() as <<num, den>>
RandomDraws == {<<9, 13>>, <<10, 13>>}
\* raw motion vectors (x, y) returned by detectMotion, in fixed point
RawVectors == {<<0, 0>>, <<0 - Scale, 0>>, <<0, Scale>>}
\* player names typed into the input, as sequences of characters
Names == {<<>>, <<" ">>, <<"A">>}


-----------------------------------------------------------------------------
(* Pure helpers. *)

Abs(n) == IF n < 0 THEN 0 - n ELSE n

Max(a, b) == IF a > b THEN a ELSE b

\* integer quotient truncated toward zero
TruncDiv(n, d) == IF n >= 0 THEN n \div d ELSE 0 - ((0 - n) \div d)

\* Math.floor(Math.random() * n) for the draw r = <<num, den>>
FloorRandom(r, n) == (r[1] * n) \div r[2]

\* const cols / rows = window.innerWidth < 640 ? 15 : 30 / 20
ColsFor(width) == IF width < NARROW_BELOW THEN 15 ELSE 30

RowsFor(width) == IF width < NARROW_BELOW THEN 15 ELSE 20

spawnFoodAnyCell(width, rx, ry) ==
    Pos(FloorRandom(rx, ColsFor(width)), FloorRandom(ry, RowsFor(width)))

\* spawnFood: x and y from two draws, on the board the current width selects
spawnFood(width, rx, ry) ==
    Pos(FloorRandom(rx, ColsFor(width) - 2) + 1,
        FloorRandom(ry, RowsFor(width) - 2) + 1)

NewHeadLeftByTwo(head, dir) ==
    CASE dir = "UP"    -> Pos(head.x, head.y - 1)
      [] dir = "DOWN"  -> Pos(head.x, head.y + 1)
      [] dir = "LEFT"  -> Pos(head.x - 2, head.y)
      [] dir = "RIGHT" -> Pos(head.x + 1, head.y)

\* the switch of updateSnake: the head moved one cell in the direction
NewHead(head, dir) ==
    CASE dir = "UP"    -> Pos(head.x, head.y - 1)
      [] dir = "DOWN"  -> Pos(head.x, head.y + 1)
      [] dir = "LEFT"  -> Pos(head.x - 1, head.y)
      [] dir = "RIGHT" -> Pos(head.x + 1, head.y)

HitsWallPastEdge(head, cols, rows) ==
    head.x < 0 \/ head.x > cols \/ head.y < 0 \/ head.y > rows

HitsWallNoRightEdge(head, cols, rows) ==
    head.x < 0 \/ head.y < 0 \/ head.y >= rows

\* Wall Collision
HitsWall(head, cols, rows) ==
    head.x < 0 \/ head.x >= cols \/ head.y < 0 \/ head.y >= rows

HitsSelfButTail(snake, head) ==
    \E i \in 1..(Len(snake) - 1) : snake[i].x = head.x /\ snake[i].y = head.y

\* Self Collision: snakeRef.current.some(segment => ...)
HitsSelf(snake, head) ==
    \E i \in 1..Len(snake) : snake[i].x = head.x /\ snake[i].y = head.y

EatsFoodSameColumn(head, food) == head.x = food.x

\* Food Collision
EatsFood(head, food) == head.x = food.x /\ head.y = food.y

\* newSnake = [head, ...snake], popped unless the food was eaten
Grow(snake, head) == <<head>> \o snake

MoveOnKeepingTail(snake, head) == <<head>> \o snake

MoveOn(snake, head) == <<head>> \o SubSeq(snake, 1, Len(snake) - 1)

currentSpeedNoFloor(s) == BASE_SPEED - (s * SPEED_DECREMENT)

\* Math.max(MIN_SPEED, BASE_SPEED - (scoreRef.current * SPEED_DECREMENT))
currentSpeed(s) == Max(MIN_SPEED, BASE_SPEED - (s * SPEED_DECREMENT))

\* timestamp - lastUpdateRef.current > currentSpeed
AdvanceDueAtLeast(timestamp, lastUpdate, s) ==
    timestamp - lastUpdate >= currentSpeed(s)

AdvanceDue(timestamp, lastUpdate, s) == timestamp - lastUpdate > currentSpeed(s)

SmoothEvenly(smoothed, raw) == TruncDiv(smoothed * 5 + raw * 5, 10)

\* smoothed * 0.8 + raw * 0.2, one component
Smooth(smoothed, raw) == TruncDiv(smoothed * 8 + raw * 2, 10)

CommitAlways(dir, newDir, reverse) == newDir

\* the candidate direction is committed unless it reverses the current one
Commit(dir, newDir, reverse) == IF dir # reverse THEN newDir ELSE dir

ArbitrateEitherAxis(dir, sx, sy) ==
    LET viaX == IF Abs(sx) > THRESHOLD
                THEN IF sx > 0 THEN Commit(dir, "RIGHT", "LEFT")
                               ELSE Commit(dir, "LEFT", "RIGHT")
                ELSE dir
        viaY == IF Abs(sy) > THRESHOLD
                THEN IF sy > 0 THEN Commit(dir, "DOWN", "UP")
                               ELSE Commit(dir, "UP", "DOWN")
                ELSE dir
    IN  IF Abs(sx) > Abs(sy)
        THEN IF viaX # dir THEN viaX ELSE viaY
        ELSE IF viaY # dir THEN viaY ELSE viaX

ArbitrateTieToX(dir, sx, sy) ==
    IF Abs(sx) >= Abs(sy)
    THEN IF Abs(sx) > THRESHOLD
         THEN IF sx > 0 THEN Commit(dir, "RIGHT", "LEFT")
                        ELSE Commit(dir, "LEFT", "RIGHT")
         ELSE dir
    ELSE IF Abs(sy) > THRESHOLD
         THEN IF sy > 0 THEN Commit(dir, "DOWN", "UP")
                        ELSE Commit(dir, "UP", "DOWN")
         ELSE dir

\* Direction Logic: the dominant axis, the dead zone, no 180 turns
Arbitrate(dir, sx, sy) ==
    IF Abs(sx) > Abs(sy)
    THEN IF Abs(sx) > THRESHOLD
         THEN IF sx > 0 THEN Commit(dir, "RIGHT", "LEFT")
                        ELSE Commit(dir, "LEFT", "RIGHT")
         ELSE dir
    ELSE IF Abs(sy) > THRESHOLD
         THEN IF sy > 0 THEN Commit(dir, "DOWN", "UP")
                        ELSE Commit(dir, "UP", "DOWN")
         ELSE dir

IsBlankEmptyOnly(name) == name = <<>>

\* playerName.trim() is the empty string (names hold letters and blanks)
IsBlank(name) == \A i \in 1..Len(name) : name[i] = " "

\* playerName || 'Unknown Pilot'
EntryName(name) == IF name = <<>> THEN <<"Unknown Pilot">> ELSE name

ScoreEntry(name, s, t) == [name |-> EntryName(name), score |-> s, timestamp |-> t]

InsertDescBeforeEqual(sorted, e) ==
    LET k == Cardinality({i \in 1..Len(sorted) : sorted[i].score > e.score})
    IN  SubSeq(sorted, 1, k) \o <<e>> \o SubSeq(sorted, k + 1, Len(sorted))

\* the place of e in a list sorted by (a, b) => b.score - a.score: Array.sort
\* is stable, so e goes behind every entry whose score is not lower
InsertDesc(sorted, e) ==
    LET k == Cardinality({i \in 1..Len(sorted) : sorted[i].score >= e.score})
    IN  SubSeq(sorted, 1, k) \o <<e>> \o SubSeq(sorted, k + 1, Len(sorted))

RECURSIVE SortDesc(_)
SortDesc(list) ==
    IF list = <<>> THEN <<>>
    ELSE InsertDesc(SortDesc(SubSeq(list, 1, Len(list) - 1)), list[Len(list)])

KeepAll(list) == list

KeepBottom(list) ==
    SubSeq(list, IF Len(list) < TOP_N THEN 1 ELSE Len(list) - TOP_N + 1, Len(list))

\* .slice(0, 10)
KeepTop(list) == SubSeq(list, 1, IF Len(list) < TOP_N THEN Len(list) ELSE TOP_N)

\* [...leaderboard, entry].sort(...).slice(0, 10)
newLeaderboard(board, entry) == KeepTop(SortDesc(Append(board, entry)))

\* localStorage: the item is absent, or holds the text of a JSON array
NoItem == [kind |-> "none"]

JSONstringify(list) == [kind |-> "array", items |-> list]

JSONparse(item) == item.items

-----------------------------------------------------------------------------
(* State. *)

VARIABLES
    \* environment
    mounted,            \* the mount effect (lines 648-685) has run
    video,              \* "loading", "ready" (readyState >= 2) or "denied"
    prevFrame,          \* detectMotion holds a previous frame
    innerWidth,         \* window.innerWidth
    clock,              \* time in ms of the latest timer or frame callback
    storage,            \* localStorage item neon_snake_leaderboard
    API_KEY,            \* process.env.API_KEY is set
    \* the commentary link of src/components/SnakeGame.tsx
    liveServiceRef,     \* "null", or the state of the service's session
    liveState,          \* isConnected, isConnecting, error
    snapshot,           \* the latest 500 ms bucket in which snapshots went
                        \* to the open link, and how many went in it
    \* useState cells
    gameState, score, countdown, isStarting, playerName, leaderboard,
    leaderboardKind,    \* "array" while the leaderboard state holds a list
    \* useRef cells
    snakeRef, foodRef, directionRef, scoreRef, gameLoopRef, lastUpdateRef,
    smoothedVectorRef,
    \* scheduling
    rafPending,         \* the frame request named by gameLoopRef is pending
    COLS, ROWS,         \* the board held by the closure of the current loop
    intervals,          \* the count of every running countdown interval
    unmounted,          \* the component has been unmounted
    loopLeaderboard,    \* the leaderboard held by the closure of the loop
    \* bookkeeping of the model
    ticks,              \* frames of the loop fired since the run started
    late,               \* those of them fired after the run ended
    frames,             \* calls of renderGame
    runs,               \* start actions accepted
    games,              \* calls of startGame
    clicked,            \* the step just taken was a start action
    resizes,
    eaten,              \* food eaten since the run started
    spawns,             \* calls of spawnFood since the component was built
    input, output       \* argument and result of a function applied alone

vars == <<mounted, video, prevFrame, innerWidth, clock, storage, API_KEY,
          liveServiceRef, liveState, snapshot,
          gameState, score, countdown, isStarting, playerName, leaderboard,
          leaderboardKind, snakeRef, foodRef, directionRef, scoreRef, gameLoopRef,
          lastUpdateRef, smoothedVectorRef, rafPending, COLS, ROWS,
          intervals, unmounted, loopLeaderboard, ticks, late, frames, runs,
          games, clicked, resizes, eaten, spawns, input, output>>

\* every cell of the component and its environment
gameVars == <<mounted, video, prevFrame, innerWidth, clock, storage, API_KEY,
              liveServiceRef, liveState, snapshot,
              gameState, score, countdown, isStarting, playerName, leaderboard,
              leaderboardKind, snakeRef, foodRef, directionRef, scoreRef, gameLoopRef,
              lastUpdateRef, smoothedVectorRef, rafPending, COLS, ROWS,
              intervals, unmounted, loopLeaderboard, ticks, late, frames,
              runs, games, clicked, resizes, eaten, spawns>>

liveVars == <<API_KEY, liveServiceRef, liveState, snapshot>>

envVars == <<mounted, video, innerWidth, storage, liveVars>>

uiVars == <<gameState, score, countdown, isStarting, playerName, leaderboard,
            leaderboardKind>>

simVars == <<snakeRef, foodRef, directionRef, scoreRef, eaten, spawns>>

loopVars == <<gameLoopRef, lastUpdateRef, smoothedVectorRef, prevFrame,
              rafPending, COLS, ROWS>>

\* leaderboards an earlier session can have left in the store
StoredBoards ==
    { [i \in 1..TOP_N |-> ScoreEntry(<<"B">>, (TOP_N - i) \div 2, i)] }

StoredItems == {NoItem} \cup {JSONstringify(b) : b \in StoredBoards}

\* the cells of the component after its first render, but for the viewport,
\* the store and the player name
Built ==
    /\ mounted = FALSE
    /\ video = "loading"
    /\ prevFrame = FALSE
    /\ clock = 0
    /\ gameState = "IDLE"
    /\ score = 0
    /\ countdown = 0
    /\ isStarting = FALSE
    /\ liveServiceRef = "null"
    /\ liveState = [isConnected |-> FALSE, isConnecting |-> FALSE,
                    error |-> "null"]
    /\ snapshot = [bucket |-> 0 - 1, count |-> 0]
    /\ leaderboard = <<>>
    /\ leaderboardKind = "array"
    /\ snakeRef = INITIAL_SNAKE
    /\ foodRef = INITIAL_FOOD
    /\ directionRef = "RIGHT"
    /\ scoreRef = 0
    /\ gameLoopRef = "null"
    /\ lastUpdateRef = 0
    /\ smoothedVectorRef = Pos(0, 0)
    /\ rafPending = FALSE
    /\ COLS = ColsFor(innerWidth)
    /\ ROWS = RowsFor(innerWidth)
    /\ intervals = <<>>
    /\ unmounted = FALSE
    /\ loopLeaderboard = <<>>
    /\ ticks = 0
    /\ late = 0
    /\ frames = 0
    /\ runs = 0
    /\ games = 0
    /\ clicked = FALSE
    /\ resizes = 0
    /\ eaten = 0
    /\ spawns = 0

\* the component after its first render
Init ==
    /\ innerWidth \in WindowWidths
    /\ storage \in StoredItems
    /\ playerName = <<>>
    /\ input = <<>>
    /\ output = <<>>
    /\ API_KEY = FALSE
    /\ Built

-----------------------------------------------------------------------------
(* Environment and menu. *)

\* useEffect on mount: the leaderboard is read from the store.  No item:
\* nothing is set.  Text JSON.parse throws on: caught, nothing is set.  Any
\* other item: setLeaderboard of the value parsed, a list or not.
Mount ==
    /\ ~mounted
    /\ mounted' = TRUE
    /\ leaderboard' = IF storage.kind = "array" THEN JSONparse(storage)
                      ELSE leaderboard
    /\ leaderboardKind' = IF storage.kind \in {"none", "text"}
                          THEN leaderboardKind ELSE storage.kind
    /\ clicked' = FALSE
    /\ UNCHANGED <<video, prevFrame, innerWidth, clock, storage, liveVars,
                   gameState, score, countdown, isStarting, playerName, snakeRef, foodRef,
                   directionRef, scoreRef, gameLoopRef, lastUpdateRef,
                   smoothedVectorRef, rafPending, COLS, ROWS, intervals,
                   unmounted, loopLeaderboard, ticks, late, frames, runs,
                   games, resizes, eaten, spawns, input, output>>

\* the component is unmounted: the cleanups of both effects cancel the frame
\* request gameLoopRef names; nothing clears a running countdown interval
Unmount ==
    /\ mounted /\ ~unmounted
    /\ unmounted' = TRUE
    /\ rafPending' = FALSE
    /\ clicked' = FALSE
    /\ UNCHANGED <<envVars, prevFrame, clock, uiVars, simVars, gameLoopRef,
                   lastUpdateRef, smoothedVectorRef, COLS, ROWS, intervals,
                   loopLeaderboard, ticks, late, frames, runs, games, resizes,
                   input, output>>

\* startCamera: getUserMedia resolves and the video delivers frames
CameraReady ==
    /\ mounted /\ ~unmounted /\ video = "loading" /\ gameState # "PLAYING"
    /\ video' = "ready"
    /\ clicked' = FALSE
    /\ UNCHANGED <<mounted, prevFrame, innerWidth, clock, storage, liveVars,
                   uiVars,
                   simVars, gameLoopRef, lastUpdateRef, smoothedVectorRef,
                   rafPending, COLS, ROWS, intervals, unmounted,
                   loopLeaderboard, ticks, late, frames, runs, games, resizes,
                   input, output>>

\* startCamera: getUserMedia rejects, setCamError
CameraDenied ==
    /\ mounted /\ ~unmounted /\ video = "loading" /\ gameState # "PLAYING"
    /\ video' = "denied"
    /\ clicked' = FALSE
    /\ UNCHANGED <<mounted, prevFrame, innerWidth, clock, storage, liveVars,
                   uiVars,
                   simVars, gameLoopRef, lastUpdateRef, smoothedVectorRef,
                   rafPending, COLS, ROWS, intervals, unmounted,
                   loopLeaderboard, ticks, late, frames, runs, games, resizes,
                   input, output>>

\* the user resizes the window; nothing listens to it
Resize ==
    /\ resizes < MaxResizes
    /\ \E w \in WindowWidths \ {innerWidth} : innerWidth' = w
    /\ resizes' = resizes + 1
    /\ clicked' = FALSE
    /\ UNCHANGED <<mounted, video, prevFrame, clock, storage, liveVars, uiVars,
                   simVars,
                   gameLoopRef, lastUpdateRef, smoothedVectorRef, rafPending,
                   COLS, ROWS, intervals, unmounted, loopLeaderboard, ticks,
                   late, frames, runs, games, input, output>>

\* the menu overlay with the name input and START MISSION is rendered
MenuShown ==
    /\ mounted /\ ~unmounted
    /\ gameState = "IDLE" /\ countdown = 0 /\ video # "denied"

\* the game-over overlay with REBOOT SYSTEM is rendered: the render that
\* follows gameOver has been committed and its effects have run
GameOverShown ==
    /\ mounted /\ ~unmounted
    /\ gameState = "GAME_OVER" /\ ~rafPending

\* onChange of the name input
SetPlayerName ==
    /\ MenuShown
    /\ \E n \in Names \ {playerName} : playerName' = n
    /\ clicked' = FALSE
    /\ UNCHANGED <<envVars, prevFrame, clock, gameState, score, countdown,
                   isStarting, leaderboard, leaderboardKind, simVars, gameLoopRef,
                   lastUpdateRef, smoothedVectorRef, rafPending, COLS, ROWS,
                   intervals, unmounted, loopLeaderboard, ticks, late, frames,
                   runs, games, resizes, input, output>>

-----------------------------------------------------------------------------
(* Run controller. *)

StartRejectedBlankOnly(name, starting) == IsBlank(name)

\* the guards of startSequence, which the disabled attribute of both
\* buttons repeats
StartRejected(name, starting) == IsBlank(name) \/ starting

\* startSequence, the onClick of START MISSION and of REBOOT SYSTEM: a
\* start action, accepted or not
StartSequence ==
    /\ MenuShown \/ GameOverShown
    /\ clicked' = TRUE
    /\ IF StartRejected(playerName, isStarting)
       THEN UNCHANGED <<isStarting, countdown, intervals, runs>>
       ELSE /\ runs < MaxRuns
            /\ isStarting' = TRUE
            /\ countdown' = COUNTDOWN_FROM
            /\ intervals' = Append(intervals, COUNTDOWN_FROM)
            /\ runs' = runs + 1
    /\ UNCHANGED <<envVars, prevFrame, clock, gameState, score, playerName,
                   leaderboard, leaderboardKind, simVars, gameLoopRef, lastUpdateRef,
                   smoothedVectorRef, rafPending, COLS, ROWS, unmounted,
                   loopLeaderboard, ticks, late, frames, games, resizes,
                   input, output>>

RemoveAt(seq, i) == SubSeq(seq, 1, i - 1) \o SubSeq(seq, i + 1, Len(seq))

startDirectionKept(dir) == dir

\* startGame: directionRef.current = Direction.RIGHT
startDirection(dir) == "RIGHT"

startScoreKept(points) == points

\* startGame: setScore(0); scoreRef.current = 0
startScore(points) == 0

\* startGame, and the render that follows it: the loop is created for the
\* board of the current width and the start/stop effect requests a frame.
\* On an unmounted component the state setters do nothing and nothing is
\* rendered; the refs are written all the same.
startGame(rx, ry) ==
    /\ gameState' = IF unmounted THEN gameState ELSE "PLAYING"
    /\ score' = IF unmounted THEN score ELSE startScore(score)
    /\ scoreRef' = startScore(scoreRef)
    /\ eaten' = 0
    /\ snakeRef' = INITIAL_SNAKE
    /\ directionRef' = startDirection(directionRef)
    /\ smoothedVectorRef' = Pos(0, 0)
    /\ foodRef' = spawnFood(innerWidth, rx, ry)
    /\ spawns' = spawns + 1
    /\ isStarting' = IF unmounted THEN isStarting ELSE FALSE
    /\ loopLeaderboard' = IF unmounted THEN loopLeaderboard ELSE leaderboard
    /\ COLS' = IF unmounted \/ gameState = "PLAYING" THEN COLS
               ELSE ColsFor(innerWidth)
    /\ ROWS' = IF unmounted \/ gameState = "PLAYING" THEN ROWS
               ELSE RowsFor(innerWidth)
    /\ rafPending' = ~unmounted
    /\ gameLoopRef' = IF unmounted THEN gameLoopRef ELSE "frame"
    /\ games' = games + 1
    /\ ticks' = 0
    /\ late' = 0

countdownDoneAtOne(count) == count <= 1

\* if (count <= 0)
countdownDone(count) == count <= 0

\* one firing of a countdown interval
IntervalFire ==
    /\ \E i \in 1..Len(intervals) :
         LET count == intervals[i] - 1
         IN  IF countdownDone(count)
             THEN /\ intervals' = RemoveAt(intervals, i)
                  /\ countdown' = IF unmounted THEN countdown ELSE 0
                  /\ \E rx \in RandomDraws, ry \in RandomDraws : startGame(rx, ry)
             ELSE /\ intervals' = [intervals EXCEPT ![i] = count]
                  /\ countdown' = IF unmounted THEN countdown ELSE count
                  /\ UNCHANGED <<gameState, score, isStarting, simVars,
                                 gameLoopRef, smoothedVectorRef, rafPending,
                                 COLS, ROWS, loopLeaderboard, games, ticks,
                                 late>>
    /\ clock' = clock + COUNTDOWN_PERIOD
    /\ clicked' = FALSE
    /\ UNCHANGED <<envVars, prevFrame, playerName, leaderboard,
                   leaderboardKind, lastUpdateRef, unmounted, frames, runs,
                   resizes, input, output>>

-----------------------------------------------------------------------------
(* The main loop. *)

\* updateSnake: what the advance does with the head it computes
updateSnake(snake, food, dir, cols, rows) ==
    LET head == NewHead(snake[1], dir)
    IN  IF HitsWall(head, cols, rows) THEN "wall"
        ELSE IF HitsSelf(snake, head) THEN "self"
        ELSE IF EatsFood(head, food) THEN "eat"
        ELSE "move"

\* Date.now() at the time of the callback
DateNow(t) == t

\* saveScore(scoreRef.current)
saveScore(board, name, finalScore, t) ==
    newLeaderboard(board, ScoreEntry(name, finalScore, DateNow(t)))

detectMotionUnguarded(raw) == raw

\* detectMotion: the zero vector while it holds no previous frame
detectMotion(raw) == IF prevFrame THEN raw ELSE <<0, 0>>

\* step 1 of the loop once a frame is read: the smoothed vector takes in
\* the raw vector, then the direction logic runs on the result
Steer(dir, smoothed, rawVec) ==
    LET next == Pos(Smooth(smoothed.x, rawVec[1]), Smooth(smoothed.y, rawVec[2]))
    IN  [smoothed |-> next, dir |-> Arbitrate(dir, next.x, next.y)]

\* the first half of loop(timestamp): motion, smoothing, direction, and
\* what the advance of this frame does ("none" when no advance is due)
LoopStep(timestamp, raw) ==
    LET motion   == video = "ready"
        steered  == IF motion
                    THEN Steer(directionRef, smoothedVectorRef, detectMotion(raw))
                    ELSE [smoothed |-> smoothedVectorRef, dir |-> directionRef]
        dir      == steered.dir
        due      == AdvanceDue(timestamp, lastUpdateRef, scoreRef)
    IN  [motion   |-> motion,
         smoothed |-> steered.smoothed,
         dir      |-> dir,
         due      |-> due,
         head     |-> NewHead(snakeRef[1], dir),
         outcome  |-> IF due
                      THEN updateSnake(snakeRef, foodRef, dir, COLS, ROWS)
                      ELSE "none"]

lastUpdateByInterval(timestamp, last, s) == last + s

\* lastUpdateRef.current = timestamp, after the advance of a frame
lastUpdate(timestamp, last, s) == timestamp

gameOverStateIdle(state) == "IDLE"

\* setGameState(GameState.GAME_OVER) of gameOver
gameOverState(state) == "GAME_OVER"

\* loop(timestamp), as the callback of a frame runs it to its last line.
\* gameOver sets the state and saves the score on the leaderboard of the
\* loop's closure; its cancelAnimationFrame names the frame that is running,
\* and the loop goes on to render and to request the next frame.
\* Where the leaderboard is no list, the spread in saveScore throws: the
\* callback ends there, and so does the render of the game-over panel at
\* leaderboard.map, which takes the component off the page.
Loop(timestamp, step, rx, ry) ==
    LET outcome == step.outcome
        over    == outcome \in {"wall", "self"}
        thrown  == over /\ leaderboardKind # "array"
        board   == saveScore(loopLeaderboard, playerName, scoreRef, timestamp)
    IN  /\ prevFrame' = (prevFrame \/ step.motion)
        /\ smoothedVectorRef' = step.smoothed
        /\ directionRef' = step.dir
        /\ snakeRef' = CASE outcome = "eat"  -> Grow(snakeRef, step.head)
                         [] outcome = "move" -> MoveOn(snakeRef, step.head)
                         [] OTHER            -> snakeRef
        /\ scoreRef' = IF outcome = "eat" THEN scoreRef + 1 ELSE scoreRef
        /\ score' = IF outcome = "eat" THEN scoreRef + 1 ELSE score
        /\ eaten' = IF outcome = "eat" THEN eaten + 1 ELSE eaten
        /\ foodRef' = IF outcome = "eat" THEN spawnFood(innerWidth, rx, ry)
                      ELSE foodRef
        /\ spawns' = IF outcome = "eat" THEN spawns + 1 ELSE spawns
        /\ lastUpdateRef' = IF step.due /\ ~thrown
                            THEN lastUpdate(timestamp, lastUpdateRef,
                                            currentSpeed(scoreRef))
                            ELSE lastUpdateRef
        /\ gameState' = IF over THEN gameOverState(gameState) ELSE gameState
        /\ leaderboard' = IF over /\ ~thrown THEN board ELSE leaderboard
        /\ storage' = IF over /\ ~thrown THEN JSONstringify(board) ELSE storage
        /\ frames' = IF thrown THEN frames ELSE frames + 1
        /\ gameLoopRef' = IF thrown THEN gameLoopRef ELSE "frame"
        /\ rafPending' = ~thrown
        /\ unmounted' = (unmounted \/ thrown)

\* the motion vectors the image of this frame can stand for; without a
\* frame to read there is none
RawNow == IF video = "ready" THEN RawVectors ELSE {<<0, 0>>}

\* the draws of Math.random() a frame with this advance makes
DrawsFor(outcome) ==
    IF outcome = "eat" THEN RandomDraws \X RandomDraws
    ELSE {<<<<0, 1>>, <<0, 1>>>>}

\* the frames of the loop the model follows in the run
TickBudget == IF games <= 1 THEN MaxTicks ELSE MaxReplayTicks

\* an animation frame fires.  The frame that is pending was requested by
\* the effect of a render with PLAYING or by the loop of such a render, so
\* the gameState the loop tests at its first line is PLAYING.
Tick ==
    /\ rafPending
    /\ IF gameState = "PLAYING" THEN ticks < TickBudget ELSE late < MaxLate
    /\ \E dt \in TickDeltas, raw \in RawNow :
         LET step == LoopStep(clock + dt, raw)
         IN  \E r \in DrawsFor(step.outcome) :
               /\ clock' = clock + dt
               /\ Loop(clock + dt, step, r[1], r[2])
    /\ ticks' = ticks + 1
    /\ late' = IF gameState = "PLAYING" THEN late ELSE late + 1
    /\ clicked' = FALSE
    /\ UNCHANGED <<mounted, video, innerWidth, liveVars, countdown, isStarting,
                   playerName, leaderboardKind, COLS, ROWS, intervals,
                   loopLeaderboard, runs, games, resizes, input, output>>

\* the render that follows gameOver is committed and the cleanup of the
\* start/stop effect cancels the frame request gameLoopRef names; the new
\* loop is created for the board of the current width
StopLoop ==
    /\ mounted /\ ~unmounted
    /\ gameState = "GAME_OVER" /\ rafPending
    /\ rafPending' = FALSE
    /\ loopLeaderboard' = leaderboard
    /\ COLS' = ColsFor(innerWidth)
    /\ ROWS' = RowsFor(innerWidth)
    /\ clicked' = FALSE
    /\ UNCHANGED <<envVars, prevFrame, clock, uiVars, simVars, gameLoopRef,
                   lastUpdateRef, smoothedVectorRef, intervals, unmounted,
                   ticks, late, frames, runs, games, resizes, input, output>>

Next ==
    \/ Mount
    \/ Unmount
    \/ CameraReady
    \/ CameraDenied
    \/ Resize
    \/ SetPlayerName
    \/ StartSequence
    \/ IntervalFire
    \/ Tick
    \/ StopLoop

Spec == Init /\ [][Next]_vars

-----------------------------------------------------------------------------
(* The component over a store item that is no list of entries. *)

\* text that is not JSON, and the JSON text of an object, {}
MalformedItems == {[kind |-> "text"], [kind |-> "object"]}

MalformedInit ==
    /\ innerWidth \in WindowWidths
    /\ storage \in MalformedItems
    /\ playerName = <<>>
    /\ input = <<>>
    /\ output = <<>>
    /\ API_KEY = FALSE
    /\ Built

MalformedSpec == MalformedInit /\ [][Next]_vars

-----------------------------------------------------------------------------
(* The component of src/components/SnakeGame.tsx, which starts without a   *)
(* countdown and opens a commentary link (GeminiLiveService) at the first  *)
(* start.  Mount, the name input and the start/stop effect are as above.   *)

INITIAL_SNAKE_SPEED == 150

\* the score held by the closure of the loop: that of the render in which
\* gameState became PLAYING, where startGame had set it
loopScore == 0

\* spawnFood of SnakeGame.tsx
spawnFoodLive(width, rx, ry) ==
    Pos(FloorRandom(rx, IF width < 600 THEN 15 ELSE 30),
        FloorRandom(ry, IF width < 600 THEN 15 ELSE 20))

\* viewport widths for SnakeGame.tsx: spawnFood breaks at 600, COLS and
\* ROWS at 640, so one width of each of the three ranges
LiveWidths == {500, 620, 800}

CommentaryInit ==
    /\ innerWidth \in LiveWidths
    /\ storage = NoItem
    /\ playerName = <<>>
    /\ input = <<>>
    /\ output = <<>>
    /\ API_KEY \in BOOLEAN
    /\ Built


\* the two early returns of startGame
startBlocked(key, name) == ~key \/ IsBlank(name)

serviceAfterStartUnguarded(ref, made) == IF made THEN "pending" ELSE ref

\* if (!liveServiceRef.current) { ... liveServiceRef.current = service; ... }
serviceAfterStart(ref, made) == IF ref = "null" /\ made THEN "pending" ELSE ref

\* startGame, the onClick of both buttons: a start action, accepted or not.
\* made: the constructor of GeminiLiveService returns; where it throws,
\* the ref stays null and the game has started all the same.
StartGameLive ==
    /\ MenuShown \/ GameOverShown
    /\ clicked' = TRUE
    /\ IF startBlocked(API_KEY, playerName)
       THEN UNCHANGED <<gameState, score, simVars, smoothedVectorRef,
                        gameLoopRef, rafPending, COLS, ROWS, loopLeaderboard,
                        liveServiceRef, liveState, runs, games, ticks, late>>
       ELSE /\ runs < MaxRuns
            /\ gameState' = "PLAYING"
            /\ score' = 0
            /\ snakeRef' = INITIAL_SNAKE
            /\ directionRef' = "RIGHT"
            /\ smoothedVectorRef' = Pos(0, 0)
            /\ \E rx \in RandomDraws, ry \in RandomDraws :
                 foodRef' = spawnFoodLive(innerWidth, rx, ry)
            /\ spawns' = spawns + 1
            /\ eaten' = 0
            /\ scoreRef' = scoreRef
            /\ loopLeaderboard' = leaderboard
            /\ COLS' = ColsFor(innerWidth)
            /\ ROWS' = RowsFor(innerWidth)
            /\ rafPending' = TRUE
            /\ gameLoopRef' = "frame"
            /\ \E made \in BOOLEAN :
                 liveServiceRef' = serviceAfterStart(liveServiceRef, made)
            /\ liveState' = IF liveServiceRef = "null"
                            THEN [liveState EXCEPT !.isConnecting = TRUE]
                            ELSE liveState
            /\ runs' = runs + 1
            /\ games' = games + 1
            /\ ticks' = 0
            /\ late' = 0
    /\ UNCHANGED <<mounted, video, innerWidth, storage, API_KEY, snapshot,
                   prevFrame, clock, countdown, isStarting, playerName, leaderboard,
                   leaderboardKind, lastUpdateRef, intervals, unmounted,
                   frames, resizes, input, output>>

\* the cells no callback of the link touches
linkless == <<mounted, video, innerWidth, storage, API_KEY, snapshot, clock,
              uiVars,
              simVars, loopVars, intervals, unmounted, loopLeaderboard, ticks,
              late, frames, runs, games, resizes, input, output>>

\* GeminiLiveService.connect, callbacks.onopen: onStatusChange('connected')
LinkOpens ==
    /\ liveServiceRef = "pending"
    /\ liveServiceRef' = "open"
    /\ liveState' = [isConnected |-> TRUE, isConnecting |-> FALSE,
                     error |-> "null"]
    /\ clicked' = FALSE
    /\ UNCHANGED linkless

\* connect's catch, or callbacks.onerror: onStatusChange('error')
LinkFails ==
    /\ liveServiceRef \in {"pending", "open"}
    /\ liveServiceRef' = "failed"
    /\ liveState' = [isConnected |-> FALSE, isConnecting |-> FALSE,
                     error |-> "Connection Failed"]
    /\ clicked' = FALSE
    /\ UNCHANGED linkless

\* callbacks.onclose: onStatusChange('closed')
LinkCloses ==
    /\ liveServiceRef = "open"
    /\ liveServiceRef' = "closed"
    /\ liveState' = [isConnected |-> FALSE, isConnecting |-> FALSE,
                     error |-> "null"]
    /\ clicked' = FALSE
    /\ UNCHANGED linkless

\* the first half of loop(timestamp) of SnakeGame.tsx: as above, with a
\* fixed interval.  The frame sent to the link goes through a promise and
\* touches no cell of the game.
LoopStepLive(timestamp, raw) ==
    LET motion   == video = "ready"
        steered  == IF motion
                    THEN Steer(directionRef, smoothedVectorRef, detectMotion(raw))
                    ELSE [smoothed |-> smoothedVectorRef, dir |-> directionRef]
        dir      == steered.dir
        due      == timestamp - lastUpdateRef > INITIAL_SNAKE_SPEED
    IN  [motion   |-> motion,
         smoothed |-> steered.smoothed,
         dir      |-> dir,
         due      |-> due,
         head     |-> NewHead(snakeRef[1], dir),
         outcome  |-> IF due
                      THEN updateSnake(snakeRef, foodRef, dir, COLS, ROWS)
                      ELSE "none"]

\* loop(timestamp) of SnakeGame.tsx run to its last line: setScore counts
\* up from the state, and gameOver saves the score of the loop's closure
LoopLive(timestamp, step, rx, ry) ==
    LET outcome == step.outcome
        over    == outcome \in {"wall", "self"}
        thrown  == over /\ leaderboardKind # "array"
        board   == saveScore(loopLeaderboard, playerName, loopScore, timestamp)
    IN  /\ prevFrame' = (prevFrame \/ step.motion)
        /\ smoothedVectorRef' = step.smoothed
        /\ directionRef' = step.dir
        /\ snakeRef' = CASE outcome = "eat"  -> Grow(snakeRef, step.head)
                         [] outcome = "move" -> MoveOn(snakeRef, step.head)
                         [] OTHER            -> snakeRef
        /\ score' = IF outcome = "eat" THEN score + 1 ELSE score
        /\ eaten' = IF outcome = "eat" THEN eaten + 1 ELSE eaten
        /\ foodRef' = IF outcome = "eat" THEN spawnFoodLive(innerWidth, rx, ry)
                      ELSE foodRef
        /\ spawns' = IF outcome = "eat" THEN spawns + 1 ELSE spawns
        /\ lastUpdateRef' = IF step.due /\ ~thrown
                            THEN lastUpdate(timestamp, lastUpdateRef,
                                            INITIAL_SNAKE_SPEED)
                            ELSE lastUpdateRef
        /\ gameState' = IF over THEN gameOverState(gameState) ELSE gameState
        /\ leaderboard' = IF over /\ ~thrown THEN board ELSE leaderboard
        /\ storage' = IF over /\ ~thrown THEN JSONstringify(board) ELSE storage
        /\ frames' = IF thrown THEN frames ELSE frames + 1
        /\ gameLoopRef' = IF thrown THEN gameLoopRef ELSE "frame"
        /\ rafPending' = ~thrown
        /\ unmounted' = (unmounted \/ thrown)

\* Math.floor(timestamp / 500) % 2 === 0
SNAPSHOT_BUCKET == 500

SnapshotDue(timestamp) == (timestamp \div SNAPSHOT_BUCKET) % 2 = 0

\* Stream to Gemini: where a frame was read, in the buckets SnapshotDue
\* names and with a service in liveServiceRef, the canvas is encoded and
\* handed to sendVideoFrame, which passes it to the session once that is
\* open.  One more snapshot is counted in the bucket of the timestamp.
sendVideoFrame(sent, timestamp, motion, service) ==
    IF motion /\ SnapshotDue(timestamp) /\ service = "open"
    THEN IF sent.bucket = timestamp \div SNAPSHOT_BUCKET
         THEN [sent EXCEPT !.count = sent.count + 1]
         ELSE [bucket |-> timestamp \div SNAPSHOT_BUCKET, count |-> 1]
    ELSE sent

\* an animation frame fires in SnakeGame.tsx
TickLive ==
    /\ rafPending
    /\ IF gameState = "PLAYING" THEN ticks < TickBudget ELSE late < MaxLate
    /\ snapshot.count < MaxSnapshots
    /\ \E dt \in TickDeltas, raw \in RawNow :
         LET step == LoopStepLive(clock + dt, raw)
         IN  \E r \in DrawsFor(step.outcome) :
               /\ clock' = clock + dt
               /\ snapshot' = sendVideoFrame(snapshot, clock + dt, step.motion,
                                             liveServiceRef)
               /\ LoopLive(clock + dt, step, r[1], r[2])
    /\ ticks' = ticks + 1
    /\ late' = IF gameState = "PLAYING" THEN late ELSE late + 1
    /\ clicked' = FALSE
    /\ UNCHANGED <<mounted, video, innerWidth, API_KEY, liveServiceRef,
                   liveState, countdown, isStarting,
                   playerName, leaderboardKind, scoreRef, COLS, ROWS,
                   intervals, loopLeaderboard, runs, games, resizes, input,
                   output>>

CommentaryNext ==
    \/ Mount
    \/ CameraReady
    \/ Resize
    \/ SetPlayerName
    \/ StartGameLive
    \/ LinkOpens
    \/ LinkFails
    \/ LinkCloses
    \/ TickLive
    \/ StopLoop

CommentarySpec == CommentaryInit /\ [][CommentaryNext]_vars

-----------------------------------------------------------------------------
(* The direction arbiter applied alone: one frame's smoothing and direction *)
(* logic, from any current direction, smoothed vector and raw vector.       *)

\* smoothed components: every tenth of the range, and 0.375, which one
\* frame without motion decays to the dead zone 0.3 exactly
SmoothedSamples ==
    {k * (Scale \div 10) : k \in (0 - 10)..10}
        \cup {(3 * Scale) \div 8, 0 - ((3 * Scale) \div 8)}

RawSamples == {0 - Scale, 0, Scale}

ArbiterInputs ==
    [dir : Directions,
     smoothed : {Pos(sx, sy) : sx \in SmoothedSamples, sy \in SmoothedSamples},
     raw : RawSamples \X RawSamples]

ArbiterInit ==
    /\ innerWidth = 800
    /\ storage = NoItem
    /\ playerName = <<>>
    /\ input \in ArbiterInputs
    /\ output = <<>>
    /\ API_KEY = FALSE
    /\ Built

ApplySteer ==
    /\ output = <<>>
    /\ output' = Steer(input.dir, input.smoothed, input.raw)
    /\ UNCHANGED <<gameVars, input>>

ArbiterSpec == ArbiterInit /\ [][ApplySteer]_vars

-----------------------------------------------------------------------------
(* detectMotion of src/utils/visionUtils.ts lines 85-158 applied alone, on  *)
(* the 320x240 canvas of the component.  A frame is the RGBA buffer of an   *)
(* image of one ground colour with one rectangular block of another colour; *)
(* the byte at index i is read as the code indexes the buffer.  The         *)
(* normalised components are exact fractions <<num, den>>, den > 0.         *)

\* <canvas ref={motionCanvasRef} width={320} height={240} />
MOTION_WIDTH == 320
MOTION_HEIGHT == 240
\* const stride = 8
STRIDE == 8
\* if (diff > 25)
NOISE == 25

\* let prevFrame: Uint8ClampedArray | null = null
NoFrame == [width |-> 0, height |-> 0, ground |-> <<0, 0, 0, 0>>,
            block |-> [x0 |-> 0, x1 |-> 0 - 1, y0 |-> 0, y1 |-> 0 - 1],
            rgba |-> <<0, 0, 0, 0>>]

Frame(w, h, ground, block, rgba) ==
    [width |-> w, height |-> h, ground |-> ground, block |-> block,
     rgba |-> rgba]

\* data.length of the buffer getImageData returns
Length(frame) == frame.width * frame.height * 4

\* data[i]
ByteAt(frame, i) ==
    LET k  == i \div 4
        px == k % frame.width
        py == k \div frame.width
        b  == frame.block
    IN  IF px >= b.x0 /\ px <= b.x1 /\ py >= b.y0 /\ py <= b.y1
        THEN frame.rgba[(i % 4) + 1]
        ELSE frame.ground[(i % 4) + 1]

ChannelDiffOffByOne(prev, data, i) == Abs(ByteAt(data, i) - ByteAt(prev, i + 1))

\* Math.abs(data[i] - prevFrame[i])
ChannelDiff(prev, data, i) == Abs(ByteAt(data, i) - ByteAt(prev, i))

\* (rDiff + gDiff + bDiff) / 3 > 25, on the sum of the three differences
ExceedsNoise(prev, data, i) ==
    ChannelDiff(prev, data, i) + ChannelDiff(prev, data, i + 1)
        + ChannelDiff(prev, data, i + 2) > 3 * NOISE

NoMotion == [totalX |-> 0, totalY |-> 0, changeCount |-> 0]

\* the three accumulators after one more batch of sampled pixels
Plus(acc, more) ==
    [totalX |-> acc.totalX + more.totalX, totalY |-> acc.totalY + more.totalY,
     changeCount |-> acc.changeCount + more.changeCount]

\* the number of passes of for (let v = 0; v < limit; v += stride)
Passes(limit) == (limit + STRIDE - 1) \div STRIDE

RECURSIVE ScanRow(_, _, _, _, _, _)
\* for (let x = 0; x < width; x += stride) { ... }: what passes lo..hi-1 of
\* the inner loop add to the accumulators in row y.  The sums are taken by
\* halves of the range; the additions are those of the loop.
ScanRow(prev, data, width, y, lo, hi) ==
    IF hi <= lo THEN NoMotion
    ELSE IF hi = lo + 1
    THEN IF ExceedsNoise(prev, data, (y * width + lo * STRIDE) * 4)
         THEN [totalX |-> lo * STRIDE, totalY |-> y, changeCount |-> 1]
         ELSE NoMotion
    ELSE Plus(ScanRow(prev, data, width, y, lo, (lo + hi) \div 2),
              ScanRow(prev, data, width, y, (lo + hi) \div 2, hi))

RECURSIVE ScanRows(_, _, _, _, _, _)
\* for (let y = 0; y < height; y += stride) { ... }: what passes lo..hi-1 of
\* the outer loop add
ScanRows(prev, data, width, height, lo, hi) ==
    IF hi <= lo THEN NoMotion
    ELSE IF hi = lo + 1
    THEN ScanRow(prev, data, width, lo * STRIDE, 0, Passes(width))
    ELSE Plus(ScanRows(prev, data, width, height, lo, (lo + hi) \div 2),
              ScanRows(prev, data, width, height, (lo + hi) \div 2, hi))

\* changeCount < (width * height) / (stride * stride) * 0.001
BelowMotionThreshold(changeCount, width, height) ==
    changeCount * STRIDE * STRIDE * 1000 < width * height

ClampNone(frac) == frac

\* Math.max(-1, Math.min(1, norm))
Clamp(frac) ==
    IF frac[1] > frac[2] THEN <<1, 1>>
    ELSE IF frac[1] < 0 - frac[2] THEN <<0 - 1, 1>>
    ELSE frac

NormXUnmirrored(totalX, changeCount, width) ==
    <<2 * (2 * totalX - width * changeCount), width * changeCount>>

\* (centerX - avgX) / (centerX * 0.5), centerX = width / 2
NormX(totalX, changeCount, width) ==
    <<2 * (width * changeCount - 2 * totalX), width * changeCount>>

\* (avgY - centerY) / (centerY * 0.5), centerY = height / 2
NormY(totalY, changeCount, height) ==
    <<2 * (2 * totalY - height * changeCount), height * changeCount>>

\* detectMotion(ctx, width, height) with the module's prevFrame and the
\* buffer ctx.getImageData returns: the vector, and the prevFrame it leaves
detectMotionFrames(prev, data, width, height) ==
    LET acc == IF prev # NoFrame /\ Length(prev) = Length(data)
               THEN ScanRows(prev, data, width, height, 0, Passes(height))
               ELSE NoMotion
    IN  IF BelowMotionThreshold(acc.changeCount, width, height)
        THEN [x |-> <<0, 1>>, y |-> <<0, 1>>, intensity |-> 0,
              prevFrame |-> data]
        ELSE [x |-> Clamp(NormX(acc.totalX, acc.changeCount, width)),
              y |-> Clamp(NormY(acc.totalY, acc.changeCount, height)),
              intensity |-> acc.changeCount,
              prevFrame |-> data]

\* the frames detectMotion is applied to: a black ground, one block
GROUND == <<0, 0, 0, 255>>
\* block colours: at the noise threshold, just above it, and white
BlockColours == {<<25, 25, 25, 255>>, <<76, 0, 0, 255>>, <<255, 255, 255, 255>>}
\* left edges, widths, top edges and heights of the block, in pixels
BlockLefts == {0, 40, 72, 73, 120, 200}
BlockWidths == {1, 8, 16, 40}
BlockTops == {0, 100}
BlockHeights == {1, 24}
\* how far the block is moved to the left in the second frame pair
BlockShifts == {0, 1, 8, 33}
\* what the module holds as prevFrame when detectMotion is called: nothing,
\* a frame of another canvas size, the bare ground, or the very same image
PrevKinds == {"none", "resized", "ground", "same"}

Block(left, wide, top, high) ==
    [x0 |-> left, x1 |-> left + wide - 1, y0 |-> top, y1 |-> top + high - 1]

NoBlock == Block(0, 0, 0, 0)

MotionFrame(block, colour) ==
    Frame(MOTION_WIDTH, MOTION_HEIGHT, GROUND, block, colour)

PrevOf(kind, data) ==
    CASE kind = "none"    -> NoFrame
      [] kind = "resized" -> Frame(MOTION_WIDTH \div 2, MOTION_HEIGHT \div 2,
                                   GROUND, NoBlock, GROUND)
      [] kind = "ground"  -> MotionFrame(NoBlock, GROUND)
      [] OTHER            -> data

MotionInputsAt(left) ==
    {[kind |-> kind,
      prev |-> PrevOf(kind, MotionFrame(Block(left, wide, top, high), colour)),
      data |-> MotionFrame(Block(left, wide, top, high), colour),
      moved |-> MotionFrame(Block(left - shift, wide, top, high), colour)] :
        kind \in PrevKinds, colour \in BlockColours,
        wide \in BlockWidths, top \in BlockTops, high \in BlockHeights,
        shift \in {d \in BlockShifts : d <= left}}

MotionInputs == UNION {MotionInputsAt(left) : left \in BlockLefts}

MotionInit ==
    /\ innerWidth = 800
    /\ storage = NoItem
    /\ playerName = <<>>
    /\ input \in MotionInputs
    /\ output = <<>>
    /\ API_KEY = FALSE
    /\ Built

\* two calls from the same prevFrame: on the image, and on the image with
\* its block moved to the left
ApplyDetectMotion ==
    /\ output = <<>>
    /\ output' = [now   |-> detectMotionFrames(input.prev, input.data,
                                               MOTION_WIDTH, MOTION_HEIGHT),
                  moved |-> detectMotionFrames(input.prev, input.moved,
                                               MOTION_WIDTH, MOTION_HEIGHT)]
    /\ UNCHANGED <<gameVars, input>>

MotionSpec == MotionInit /\ [][ApplyDetectMotion]_vars

-----------------------------------------------------------------------------
(* spawnFood of lines 735-743 applied alone, at both board sizes and for    *)
(* draws of Math.random() over the whole of [0, 1).                         *)

\* the draws are the multiples of 1/DrawSteps below 1
DrawSteps == 64

SpawnDraws == {<<k, DrawSteps>> : k \in 0..(DrawSteps - 1)}

SpawnInputs == [width : WindowWidths, rx : SpawnDraws, ry : SpawnDraws]

SpawnInit ==
    /\ innerWidth = 800
    /\ storage = NoItem
    /\ playerName = <<>>
    /\ input \in SpawnInputs
    /\ output = <<>>
    /\ API_KEY = FALSE
    /\ Built

ApplySpawnFood ==
    /\ output = <<>>
    /\ output' = spawnFood(input.width, input.rx, input.ry)
    /\ UNCHANGED <<gameVars, input>>

SpawnSpec == SpawnInit /\ [][ApplySpawnFood]_vars

-----------------------------------------------------------------------------
(* The speed policy applied alone, at two scores. *)

SpeedInit ==
    /\ innerWidth = 800
    /\ storage = NoItem
    /\ playerName = <<>>
    /\ input \in [s : 0..MaxSpeedScore, t : 0..MaxSpeedScore]
    /\ output = <<>>
    /\ API_KEY = FALSE
    /\ Built

ApplySpeed ==
    /\ output = <<>>
    /\ output' = [s |-> currentSpeed(input.s), t |-> currentSpeed(input.t)]
    /\ UNCHANGED <<gameVars, input>>

SpeedSpec == SpeedInit /\ [][ApplySpeed]_vars

-----------------------------------------------------------------------------
(* The leaderboard over many runs.  A run is played to its end and only    *)
(* what gameOver does with its final score is kept: saveScore on the       *)
(* leaderboard of the render the loop was created in, which is the current *)
(* one.  input is the list of the final scores so far.                     *)

\* the final score of the next run: the lowest not yet seen, or the highest
FinalScores == {Len(input), 2 * MaxSaves - Len(input)}

\* the time a run takes, in ms
RUN_TIME == 5 * COUNTDOWN_PERIOD

LeaderboardInit ==
    /\ innerWidth = 800
    /\ storage = NoItem
    /\ playerName = <<"A">>
    /\ input = <<>>
    /\ output = <<>>
    /\ API_KEY = FALSE
    /\ Built

RunEnds ==
    /\ mounted
    /\ Len(input) < MaxSaves
    /\ \E s \in FinalScores :
         /\ leaderboard' = saveScore(leaderboard, playerName, s, clock + RUN_TIME)
         /\ input' = Append(input, s)
    /\ storage' = JSONstringify(leaderboard')
    /\ clock' = clock + RUN_TIME
    /\ UNCHANGED <<mounted, video, prevFrame, innerWidth, liveVars, gameState,
                   score, countdown, isStarting, playerName, leaderboardKind,
                   simVars, gameLoopRef,
                   lastUpdateRef, smoothedVectorRef, rafPending, COLS, ROWS,
                   intervals, unmounted, loopLeaderboard, ticks, late, frames,
                   runs, games, clicked, resizes, output>>

LeaderboardNext == Mount \/ RunEnds

LeaderboardSpec == LeaderboardInit /\ [][LeaderboardNext]_vars

\* the final scores of runs that end level with one another
TiedScores == {1, 2}

\* gameOver -> saveScore at the end of a run with one of the level scores
RunEndsTied ==
    /\ mounted
    /\ Len(input) < MaxSaves
    /\ \E s \in TiedScores :
         /\ leaderboard' = saveScore(leaderboard, playerName, s, clock + RUN_TIME)
         /\ input' = Append(input, s)
    /\ storage' = JSONstringify(leaderboard')
    /\ clock' = clock + RUN_TIME
    /\ UNCHANGED <<mounted, video, prevFrame, innerWidth, liveVars, gameState,
                   score, countdown, isStarting, playerName, leaderboardKind,
                   simVars, gameLoopRef,
                   lastUpdateRef, smoothedVectorRef, rafPending, COLS, ROWS,
                   intervals, unmounted, loopLeaderboard, ticks, late, frames,
                   runs, games, clicked, resizes, output>>

TiedNext == Mount \/ RunEndsTied

TiedSpec == LeaderboardInit /\ [][TiedNext]_vars

-----------------------------------------------------------------------------
(* Vocabulary of the properties. *)

Opposite(dir) ==
    CASE dir = "UP"    -> "DOWN"
      [] dir = "DOWN"  -> "UP"
      [] dir = "LEFT"  -> "RIGHT"
      [] dir = "RIGHT" -> "LEFT"

\* the cell one unit offset from p in direction dir
StepFrom(p, dir) ==
    CASE dir = "UP"    -> [x |-> p.x, y |-> p.y - 1]
      [] dir = "DOWN"  -> [x |-> p.x, y |-> p.y + 1]
      [] dir = "LEFT"  -> [x |-> p.x - 1, y |-> p.y]
      [] dir = "RIGHT" -> [x |-> p.x + 1, y |-> p.y]

\* p lies outside [0,COLS) x [0,ROWS)
Outside(p) == ~(0 <= p.x /\ p.x < COLS /\ 0 <= p.y /\ p.y < ROWS)

\* p is a cell of the snake
OnSnake(p) == \E i \in DOMAIN snakeRef : snakeRef[i] = p

\* this step is a frame of the loop
TickStep == ticks' = ticks + 1

\* this step is a frame in which updateSnake ran
Advanced == TickStep /\ lastUpdateRef' # lastUpdateRef

\* the head updateSnake computes in this step: from the current head, in
\* the direction the arbitration of the same frame leaves
ComputedHead == StepFrom(snakeRef[1], directionRef')

\* the name is empty or holds nothing but blanks
OnlySpaces(name) == \A i \in DOMAIN name : name[i] = " "

\* this step is a start action, accepted or not
StartAction == clicked'

SortedDesc(list) ==
    \A i \in 1..(Len(list) - 1) : list[i].score >= list[i + 1].score

ScoresOf(list) == {list[i].score : i \in DOMAIN list}

-----------------------------------------------------------------------------
(* Properties. *)

\* C1: whatever the smoothed vector, the raw vector and the current
\* direction, the direction after one frame's arbitration is never the exact
\* opposite of the direction held before it.
C1_NeverReverses ==
    output # <<>> => output.dir # Opposite(input.dir)

\* C1 witness: the dominant axis points LEFT beyond the dead zone while the
\* direction is RIGHT, and the direction stays RIGHT.
C1_ReversalRejected ==
    /\ output # <<>>
    /\ input.dir = "RIGHT"
    /\ output.smoothed.x < 0 - THRESHOLD
    /\ Abs(output.smoothed.x) > Abs(output.smoothed.y)
    /\ output.dir = "RIGHT"

C3_SelfEndsRun ==
    [][ (Advanced /\ ~Outside(ComputedHead) /\ OnSnake(ComputedHead)) =>
          /\ gameState' = "GAME_OVER"
          /\ snakeRef' = snakeRef ]_vars

\* C3 witness: the run has ended with the head heading into the tail cell.
C3_TailHit ==
    /\ gameState = "GAME_OVER"
    /\ Len(snakeRef) >= 2
    /\ StepFrom(snakeRef[1], directionRef) = snakeRef[Len(snakeRef)]

\* C4: the snake is one longer than the food eaten since the run started,
\* and the run's score is that count.
C4_LengthIsOnePlusEaten ==
    /\ Len(snakeRef) = 1 + eaten
    /\ scoreRef = eaten

\* C4 witness: a running game after two foods.
C4_TwoEaten ==
    /\ gameState = "PLAYING"
    /\ eaten = 2
    /\ Len(snakeRef) = 3

\* C5: an advance onto the food adds exactly 1 to the score, keeps the tail
\* (the snake is the new head before the old snake) and calls spawnFood in
\* the same advance; any other advance without collision leaves score and
\* food alone, calls no spawnFood and keeps the length.
C5_EatOrMove ==
    [][ (Advanced /\ ~Outside(ComputedHead) /\ ~OnSnake(ComputedHead)) =>
          IF ComputedHead = foodRef
          THEN /\ scoreRef' = scoreRef + 1
               /\ score' = scoreRef + 1
               /\ snakeRef' = <<ComputedHead>> \o snakeRef
               /\ spawns' = spawns + 1
          ELSE /\ scoreRef' = scoreRef
               /\ score' = score
               /\ foodRef' = foodRef
               /\ spawns' = spawns
               /\ Len(snakeRef') = Len(snakeRef)
               /\ snakeRef'[1] = ComputedHead ]_vars

\* C5 witness: from [(10,10)] heading RIGHT with the food at (11,10), one
\* advance: head (11,10), score 1, length 2, a second spawnFood.
C5_AteFirstFood ==
    /\ gameState = "PLAYING"
    /\ snakeRef = <<Pos(11, 10), Pos(10, 10)>>
    /\ scoreRef = 1
    /\ score = 1
    /\ spawns = 2

\* C6: every food position spawnFood produces, at run start and after each
\* food eaten, differs from every cell of the snake at that moment.
C6_FoodOffSnake ==
    [][ spawns' # spawns =>
          \A i \in DOMAIN snakeRef' : snakeRef'[i] # foodRef' ]_vars

C8_SpeedMonotone ==
    output # <<>> =>
        /\ output.s = (IF 250 - 5 * input.s > 60 THEN 250 - 5 * input.s ELSE 60)
        /\ output.s >= MIN_SPEED
        /\ input.s <= input.t => output.t <= output.s
        /\ (input.s < input.t /\ output.s > MIN_SPEED) => output.t < output.s

\* C8 witness: score 37 has interval 65, and score 40 is on the floor of 60.
C8_FloorReached ==
    /\ output # <<>>
    /\ input.s = 37 /\ output.s = 65
    /\ input.t = 40 /\ output.t = 60

\* C9: the leaderboard in memory and the one in the store have at most 10
\* entries and are sorted by score, descending.
C9_BoardsSortedTop10 ==
    /\ Len(leaderboard) <= 10
    /\ SortedDesc(leaderboard)
    /\ storage.kind = "array" =>
          /\ Len(storage.items) <= 10
          /\ SortedDesc(storage.items)

\* C9 witness: a full leaderboard of 10 has taken in the entry of the run
\* that just ended, ahead of its last place, and is stored.
C9_FullBoardTookEntry ==
    /\ gameState = "GAME_OVER"
    /\ Len(leaderboard) = 10
    /\ storage = JSONstringify(leaderboard)
    /\ \E i \in 1..9 : leaderboard[i].timestamp = lastUpdateRef

\* C10: from an empty leaderboard, after N game-overs with pairwise distinct
\* scores the stored list holds exactly the min(N,10) highest of them, in
\* descending order.
C10_TopTenOfDistinct ==
    LET all == {input[i] : i \in DOMAIN input}
        top == {a \in all : Cardinality({b \in all : b > a}) < 10}
    IN  (input # <<>> /\ Cardinality(all) = Len(input)) =>
            /\ storage.kind = "array"
            /\ storage.items = leaderboard
            /\ ScoresOf(leaderboard) = top
            /\ Len(leaderboard) = Cardinality(top)
            /\ \A i \in 1..(Len(leaderboard) - 1) :
                 leaderboard[i].score > leaderboard[i + 1].score

\* C10 witness: after 12 game-overs the first score saved has left the
\* list and the last one saved did not enter it.
C10_EvictedAndRefused ==
    /\ Len(input) = 12
    /\ Len(leaderboard) = 10
    /\ input[1] \notin ScoresOf(leaderboard)
    /\ input[12] \notin ScoresOf(leaderboard)

\* C11: a start action while the player name is empty or only whitespace
\* changes none of gameState, countdown, isStarting, snake, food, direction
\* and score, and starts no timer.
C11_BlankNameRejected ==
    [][ (StartAction /\ OnlySpaces(playerName)) =>
            /\ UNCHANGED <<gameState, countdown, isStarting, snakeRef, foodRef,
                           directionRef, score, scoreRef>>
            /\ intervals' = intervals
            /\ rafPending' = rafPending ]_vars

\* C11 witness: START MISSION was pressed with a name of one blank and the
\* component is as it was built.
C11_PressedWithBlankName ==
    /\ clicked
    /\ playerName = <<" ">>
    /\ gameState = "IDLE" /\ countdown = 0 /\ ~isStarting
    /\ intervals = <<>>
    /\ snakeRef = INITIAL_SNAKE /\ foodRef = INITIAL_FOOD

\* C12: at most one start is in flight: no more than one countdown interval
\* runs at a time, a start action made while one runs changes nothing, and
\* the start actions accepted are the calls of startGame made plus the
\* countdown still running.
C12_OneStartInFlight ==
    /\ [](Len(intervals) <= 1)
    /\ [](runs = games + Len(intervals))
    /\ [][ (StartAction /\ intervals # <<>>) =>
              /\ intervals' = intervals
              /\ runs' = runs
              /\ UNCHANGED <<gameState, countdown, isStarting>> ]_vars

\* C12 witness: REBOOT SYSTEM was pressed again after the countdown of an
\* accepted start had counted once, and that countdown is the only one.
C12_PressedDuringCountdown ==
    /\ clicked
    /\ gameState = "GAME_OVER"
    /\ isStarting
    /\ intervals = <<COUNTDOWN_FROM - 1>>
    /\ runs = 2 /\ games = 1

\* C13: a replay from GAME_OVER ends in PLAYING with snake = [(10,10)],
\* direction RIGHT, score 0, the smoothed vector (0,0) and a food spawned
\* by that startGame, whatever the run before left; from the start action to
\* PLAYING the player name and the leaderboard, in memory and in the store,
\* do not change.
C13_ReplayStartsAfresh ==
    [][ /\ (gameState = "GAME_OVER" /\ gameState' = "PLAYING") =>
              /\ snakeRef' = <<[x |-> 10, y |-> 10]>>
              /\ directionRef' = "RIGHT"
              /\ score' = 0 /\ scoreRef' = 0
              /\ smoothedVectorRef' = [x |-> 0, y |-> 0]
              /\ spawns' = spawns + 1
              /\ ~Outside(foodRef)'
        /\ (gameState = "GAME_OVER" /\ (isStarting \/ isStarting')) =>
              UNCHANGED <<playerName, leaderboard, storage>> ]_vars

\* C13 witness: a replay has started after a run in which food was eaten and
\* whose score is on the leaderboard.
C13_ReplayedAfterScoring ==
    /\ gameState = "PLAYING"
    /\ games = 2 /\ ticks = 0
    /\ snakeRef = INITIAL_SNAKE /\ directionRef = "RIGHT"
    /\ scoreRef = 0 /\ smoothedVectorRef = Pos(0, 0)
    /\ \E i \in DOMAIN leaderboard :
         leaderboard[i].name = <<"A">> /\ leaderboard[i].score >= 1

\* C14: once the run has ended (gameOver was called) or the component is
\* unmounted, no frame of the loop runs any more and no frame request is
\* left pending.
C14_LoopStopsAtOnce ==
    /\ [](gameState = "GAME_OVER" => ~rafPending)
    /\ [](unmounted => ~rafPending)
    /\ [][ TickStep => (gameState = "PLAYING" /\ ~unmounted) ]_vars

\* C15: the store is written once for each run that ends and at no other
\* time: a step writes the store only when it takes gameState from PLAYING
\* to GAME_OVER, and then it writes the leaderboard with at most one entry
\* that is new.
C15_OneWritePerRun ==
    [][ /\ storage' # storage =>
              /\ gameState = "PLAYING" /\ gameState' = "GAME_OVER"
              /\ storage' = JSONstringify(leaderboard')
              /\ Cardinality({i \in DOMAIN leaderboard' :
                     \A j \in DOMAIN leaderboard :
                        leaderboard[j] # leaderboard'[i]}) <= 1
        /\ (gameState = "PLAYING" /\ gameState' = "GAME_OVER") =>
              storage' = JSONstringify(leaderboard') ]_vars

\* C16: in every frame of the loop while PLAYING, updateSnake runs only if
\* the timestamp of the frame minus that of the last advance is strictly
\* greater than the interval of the current score, and without it the snake,
\* the food and the score stay; the game is rendered in every frame; and the
\* smoothed vector takes in the motion of every frame, advance or not.
C16_AdvanceOnlyWhenDue ==
    [][ (TickStep /\ gameState = "PLAYING") =>
          LET elapsed  == clock' - lastUpdateRef
              interval == IF 250 - 5 * scoreRef > 60
                          THEN 250 - 5 * scoreRef ELSE 60
              s        == smoothedVectorRef
              t        == smoothedVectorRef'
          IN  /\ Advanced => elapsed > interval
              /\ ~Advanced => /\ UNCHANGED <<snakeRef, foodRef, scoreRef, score>>
                              /\ gameState' = gameState
              /\ frames' = frames + 1
              /\ \E raw \in RawVectors \cup {<<0, 0>>} :
                   /\ Abs(10 * t.x - (8 * s.x + 2 * raw[1])) < 10
                   /\ Abs(10 * t.y - (8 * s.y + 2 * raw[2])) < 10
              /\ (video = "ready" /\ prevFrame) =>
                   \E raw \in RawVectors :
                     /\ Abs(10 * t.x - (8 * s.x + 2 * raw[1])) < 10
                     /\ Abs(10 * t.y - (8 * s.y + 2 * raw[2])) < 10 ]_vars

\* C16 witness: the frame just run was rendered and did not advance the
\* snake, which still lies in row 10, and the direction has turned to DOWN.
C16_TurnedWithoutAdvance ==
    /\ gameState = "PLAYING"
    /\ ticks >= 2 /\ frames = ticks
    /\ lastUpdateRef < clock
    /\ directionRef = "DOWN"
    /\ \A i \in DOMAIN snakeRef : snakeRef[i].y = 10

\* C17: over a store item that is no list of entries the component takes an
\* empty leaderboard: the leaderboard state is a list, empty until a run is
\* saved, the game starts all the same, and once a run has ended the store
\* holds a sorted list of at most 10 entries with the entry of that run.
C17_FallsBackToEmpty ==
    /\ [](/\ leaderboardKind = "array"
          /\ games = 0 => leaderboard = <<>>)
    /\ [](gameState = "GAME_OVER" =>
            /\ storage.kind = "array"
            /\ storage.items # <<>>
            /\ Len(storage.items) <= 10
            /\ SortedDesc(storage.items))

\* C18: in src/components/SnakeGame.tsx a start action with a name that is
\* not blank takes the game to PLAYING, whether or not the commentary
\* service can be set up or connected, and a step of the link changes
\* nothing but the link and its status flags.
C18_LinkNeverBlocksPlay ==
    [][ /\ (StartAction /\ ~OnlySpaces(playerName)) => gameState' = "PLAYING"
        /\ (liveState' # liveState /\ ~StartAction) =>
              UNCHANGED <<gameState, score, snakeRef, foodRef, directionRef,
                          rafPending, leaderboard, storage>> ]_vars


\* C19: the score, in the ref and on the screen, is a natural number; while
\* a run is being played it never goes down and changes by one point at a
\* time; and at the first tick of every run, replays included, it is 0.
C19_ScoreCountsUpFromZero ==
    /\ [](scoreRef \in Nat /\ score \in Nat)
    /\ [][ /\ gameState = "PLAYING" =>
                /\ scoreRef' \in {scoreRef, scoreRef + 1}
                /\ score' \in {score, score + 1}
           /\ (TickStep /\ ticks = 0) => (scoreRef = 0 /\ score = 0) ]_vars

\* the first tick of a replay has run, after a first run that scored
C19_FirstTickOfReplay ==
    /\ games = 2
    /\ ticks = 1
    /\ gameState = "PLAYING"
    /\ leaderboard # <<>>
    /\ leaderboard[1].score > 0


\* C20: in every reachable state the snake has at least one segment and no
\* two of its segments are on the same cell.
C20_SnakeCellsDistinct ==
    /\ Len(snakeRef) >= 1
    /\ \A i, j \in DOMAIN snakeRef : snakeRef[i] = snakeRef[j] => i = j

\* a snake that has grown and bent: its head is beside its own body, on
\* another row than its tail
C20_GrownAndBent ==
    /\ Len(snakeRef) >= 4
    /\ snakeRef[1].y # snakeRef[Len(snakeRef)].y
    /\ snakeRef[1].x = snakeRef[4].x


\* the direction the sign of a component asks for, on the x or the y axis
CandidateOn(axis, component) ==
    IF axis = "x" THEN IF component > 0 THEN "RIGHT" ELSE "LEFT"
                  ELSE IF component > 0 THEN "DOWN" ELSE "UP"

\* C21 as stated: only the axis whose smoothed value is larger in absolute
\* value can change the direction of a tick; where it is within the dead
\* zone the direction stays, and the other axis never changes it.  Where
\* neither axis is larger than the other, no axis can change it.
C21_LargerAxisOnly ==
    output # <<>> =>
        LET s == output.smoothed
        IN  /\ Abs(s.x) > Abs(s.y) =>
                 /\ output.dir \in {input.dir, CandidateOn("x", s.x)}
                 /\ Abs(s.x) <= THRESHOLD => output.dir = input.dir
            /\ Abs(s.y) > Abs(s.x) =>
                 /\ output.dir \in {input.dir, CandidateOn("y", s.y)}
                 /\ Abs(s.y) <= THRESHOLD => output.dir = input.dir
            /\ Abs(s.x) = Abs(s.y) => output.dir = input.dir

\* C21 amended: the dominant axis of a tick is the x axis where the smoothed
\* x is larger in absolute value than the smoothed y, and the y axis
\* otherwise (also where the two are equal).  Only the dominant axis can
\* change the direction: within the dead zone the direction stays, and the
\* direction after the tick is the one before it or the dominant axis's
\* candidate, also where the other axis is beyond the dead zone and where
\* the candidate is rejected as a reversal.
C21_DominantAxisOnly ==
    output # <<>> =>
        LET s     == output.smoothed
            axis  == IF Abs(s.x) > Abs(s.y) THEN "x" ELSE "y"
            value == IF axis = "x" THEN s.x ELSE s.y
        IN  /\ output.dir \in {input.dir, CandidateOn(axis, value)}
            /\ Abs(value) <= THRESHOLD => output.dir = input.dir

\* C21 witness: x dominates and asks for LEFT against the direction RIGHT,
\* y is beyond the dead zone as well, and the direction stays RIGHT.
C21_RejectedAndOtherAxisIgnored ==
    /\ output # <<>>
    /\ input.dir = "RIGHT"
    /\ Abs(output.smoothed.x) > Abs(output.smoothed.y)
    /\ output.smoothed.x < 0 - THRESHOLD
    /\ Abs(output.smoothed.y) > THRESHOLD
    /\ output.dir = "RIGHT"


\* whether the fraction a is at most the fraction b
FracAtMost(a, b) == a[1] * b[2] <= b[1] * a[2]

\* C22: for two consecutive frames of the same size that agree in every
\* pixel, detectMotion returns the vector (0, 0) with intensity 0.
C22_NoDifferenceNoMotion ==
    (output # <<>> /\ input.prev = input.data) =>
        /\ output.now.x[1] = 0
        /\ output.now.y[1] = 0
        /\ output.now.intensity = 0

\* C22 witness: detectMotion has run on a white block of 40 by 24 pixels
\* that was in the previous frame as well
C22_SameImageTwice ==
    /\ output # <<>>
    /\ input.prev = input.data
    /\ input.data.rgba = <<255, 255, 255, 255>>
    /\ input.data.block = Block(40, 40, 0, 24)
    /\ output.now.intensity = 0


\* the multiples of the stride among a..b, for 0 <= a
SampledIn(a, b) == IF b < a THEN 0 ELSE (b \div STRIDE) - ((a + STRIDE - 1) \div STRIDE) + 1

\* the block of a frame is bright against the ground and covers enough of
\* the sampled pixels to pass the motion threshold of the canvas
LargeBlock(frame) ==
    /\ frame.rgba[1] + frame.rgba[2] + frame.rgba[3] > 3 * NOISE
    /\ SampledIn(frame.block.x0, frame.block.x1)
          * SampledIn(frame.block.y0, frame.block.y1)
          * STRIDE * STRIDE * 1000 >= MOTION_WIDTH * MOTION_HEIGHT

\* C23: where the new frame differs from the previous one only in a block
\* that lies left of the centre of the frame and passes the motion
\* threshold, x is positive; with the block moved further to the left x is
\* not smaller; and x is exactly 1 once the middle of the block is at least
\* a quarter of the width away from the centre.
C23_LeftBlockSteersRight ==
    (/\ output # <<>>
     /\ input.kind = "ground"
     /\ input.data.block.x1 < MOTION_WIDTH \div 2
     /\ LargeBlock(input.data)) =>
        /\ output.now.x[1] > 0
        /\ LargeBlock(input.moved) => FracAtMost(output.now.x, output.moved.x)
        /\ 2 * (input.data.block.x0 + input.data.block.x1) <= MOTION_WIDTH
              => output.now.x[1] = output.now.x[2]

\* C23 witness: a block left of the centre that gives an x below 1, and
\* moved 33 pixels to the left gives exactly 1
C23_MovedLeftIntoSaturation ==
    /\ output # <<>>
    /\ input.kind = "ground"
    /\ input.data.block.x1 < MOTION_WIDTH \div 2
    /\ LargeBlock(input.data) /\ LargeBlock(input.moved)
    /\ output.now.x[1] > 0
    /\ output.now.x[1] < output.now.x[2]
    /\ input.moved.block.x0 = input.data.block.x0 - 33
    /\ output.moved.x[1] = output.moved.x[2]


\* the sampled pixels of the canvas whose three channel differences average
\* above the noise threshold, where the two frames can be compared at all
ChangedSamples(prev, data) ==
    IF prev # NoFrame /\ Length(prev) = Length(data)
    THEN {p \in (0..(Passes(MOTION_WIDTH) - 1)) \X (0..(Passes(MOTION_HEIGHT) - 1)) :
            ExceedsNoise(prev, data,
                         (p[2] * STRIDE * MOTION_WIDTH + p[1] * STRIDE) * 4)}
    ELSE {}

\* the fraction is within [-1, 1]
FracInUnit(frac) == frac[2] > 0 /\ 0 - frac[2] <= frac[1] /\ frac[1] <= frac[2]

\* C24: detectMotion returns x and y within [-1, 1] and a natural number as
\* intensity; with fewer changed sampled pixels than the motion threshold
\* asks for it returns (0, 0) with intensity 0, and otherwise the intensity
\* is the number of changed sampled pixels.
C24_RangeAndIntensity ==
    output # <<>> =>
        LET changed == Cardinality(ChangedSamples(input.prev, input.data))
        IN  /\ FracInUnit(output.now.x)
            /\ FracInUnit(output.now.y)
            /\ output.now.intensity \in Nat
            /\ IF changed * STRIDE * STRIDE * 1000 < MOTION_WIDTH * MOTION_HEIGHT
               THEN /\ output.now.x[1] = 0
                    /\ output.now.y[1] = 0
                    /\ output.now.intensity = 0
               ELSE output.now.intensity = changed

\* C24 witness: a block in the top left corner, 5 by 3 sampled pixels, whose
\* centroid is beyond the range on both axes: both components are clamped
C24_ClampedCorner ==
    /\ output # <<>>
    /\ input.kind = "ground"
    /\ input.data.block = Block(0, 40, 0, 24)
    /\ output.now.intensity = 15
    /\ output.now.x = <<1, 1>>
    /\ output.now.y = <<0 - 1, 1>>


\* C25: in src/components/SnakeGame.tsx the board is one and the same for a
\* whole run: spawnFood draws on the COLS by ROWS board of updateSnake's
\* wall test, so from the first start on the food is a cell of that board,
\* at every viewport width and across changes of the width during the run.
C25_FoodOnTheBoardOfTheRun ==
    games >= 1 =>
        /\ 0 <= foodRef.x /\ foodRef.x < COLS
        /\ 0 <= foodRef.y /\ foodRef.y < ROWS


\* C26: in src/components/SnakeGame.tsx, while a run is played with the
\* commentary link open, snapshots go out throttled: only in even 500 ms
\* buckets of the timestamp, and roughly one per such bucket (here: at most
\* two), not one per tick.
C26_SnapshotsThrottled ==
    /\ snapshot.count > 0 => snapshot.bucket % 2 = 0
    /\ snapshot.count <= 2


\* C27: a tick without motion input (the video is not ready, or detectMotion
\* holds no previous frame to compare with) treats the motion as zero: where
\* detectMotion is called it gives the zero vector and keeps the frame, the
\* direction is the one before the tick, and the snake advances whenever
\* its interval has passed.
C27_NoInputNoTurn ==
    [][ (TickStep /\ (video # "ready" \/ ~prevFrame)) =>
            /\ directionRef' = directionRef
            /\ IF video = "ready"
               THEN /\ prevFrame'
                    /\ smoothedVectorRef' = Pos(Smooth(smoothedVectorRef.x, 0),
                                                Smooth(smoothedVectorRef.y, 0))
               ELSE /\ prevFrame' = prevFrame
                    /\ smoothedVectorRef' = smoothedVectorRef
            /\ AdvanceDue(clock', lastUpdateRef, scoreRef) => Advanced ]_vars

\* C27 witness: the first tick of the first run has read the first frame of
\* the camera and has moved the snake one cell to the right
C27_FirstFrameAdvanced ==
    /\ games = 1 /\ ticks = 1
    /\ video = "ready" /\ prevFrame
    /\ smoothedVectorRef = Pos(0, 0)
    /\ directionRef = "RIGHT"
    /\ snakeRef[1] = Pos(11, 10)
    /\ lastUpdateRef = clock


\* C28: in src/components/SnakeGame.tsx the entry written when a run ends
\* carries the score of that run: the number of food items eaten in it,
\* which is the score on the screen at that moment.
C28_SavedScoreIsRunScore ==
    [][ (gameState = "PLAYING" /\ gameState' = "GAME_OVER") =>
          /\ score = eaten
          /\ \E i \in DOMAIN leaderboard' : leaderboard'[i].timestamp = clock'
          /\ \A i \in DOMAIN leaderboard' :
               leaderboard'[i].timestamp = clock' =>
                   leaderboard'[i].score = score ]_vars


\* C29: for a snake of two or more cells, the direction an advance applies
\* is never the opposite of the direction the previous advance of the run
\* applied, whatever was steered in the ticks between the two: the new head
\* is never the cell right behind the head.
C29_NoTurnBackBetweenAdvances ==
    [][ (Advanced /\ Len(snakeRef) >= 2) =>
          /\ ComputedHead # snakeRef[2]
          /\ directionRef' # Opposite(CHOOSE d \in Directions :
                                        StepFrom(snakeRef[2], d) = snakeRef[1])
      ]_vars


\* C30: every position spawnFood of the countdown version produces keeps off
\* the cells along the edge of the board: 1 <= x <= cols - 2 and
\* 1 <= y <= rows - 2, on the 15x15 and on the 30x20 board.
C30_FoodOffTheEdge ==
    output # <<>> =>
        /\ 1 <= output.x /\ output.x <= ColsFor(input.width) - 2
        /\ 1 <= output.y /\ output.y <= RowsFor(input.width) - 2

\* C30 witness: on the 30x20 board the two largest draws give the cell
\* (28, 18), next to the far corner
C30_NextToFarCorner ==
    /\ output # <<>>
    /\ input.width = 800
    /\ input.rx = <<DrawSteps - 1, DrawSteps>>
    /\ input.ry = <<DrawSteps - 1, DrawSteps>>
    /\ output = Pos(28, 18)


\* C31: an accepted start shows 3 and starts one interval timer; the
\* countdown then shows 2 and 1, one firing of the timer apart; the third
\* firing shows 0, clears the timer and calls startGame, once per accepted
\* start and at no other moment.  Until that call the game state stays as
\* it was and isStarting is true.
C31_CountdownThenStart ==
    /\ [](intervals # <<>> =>
            /\ Len(intervals) = 1
            /\ intervals[1] \in 1..COUNTDOWN_FROM
            /\ isStarting
            /\ ~unmounted => countdown = intervals[1])
    /\ [](runs = games + Len(intervals))
    /\ [][ /\ (StartAction /\ runs' # runs) =>
                 (intervals = <<>> /\ intervals' = <<COUNTDOWN_FROM>>)
           /\ (intervals # <<>> /\ intervals' # intervals) =>
                 /\ clock' = clock + COUNTDOWN_PERIOD
                 /\ IF intervals[1] > 1
                    THEN /\ intervals' = <<intervals[1] - 1>>
                         /\ games' = games
                    ELSE /\ intervals' = <<>>
                         /\ games' = games + 1
                         /\ ~unmounted => (countdown' = 0 /\ ~isStarting')
           /\ games' # games => (intervals = <<1>> /\ intervals' = <<>>)
           /\ (intervals # <<>> /\ games' = games) => gameState' = gameState
         ]_vars

\* C31 witness: the countdown before a replay shows 1, two firings after the
\* start was accepted on the game-over panel
C31_ReplayCountdownAtOne ==
    /\ gameState = "GAME_OVER"
    /\ isStarting
    /\ countdown = 1
    /\ intervals = <<1>>
    /\ runs = 2 /\ games = 1
    /\ ~clicked


\* C32: the game state changes only from IDLE to PLAYING, from PLAYING to
\* GAME_OVER and from GAME_OVER to PLAYING; it becomes PLAYING only in a
\* step that calls startGame and GAME_OVER only in a frame of the loop.
C32_OnlyThreeTransitions ==
    /\ [](gameState \in {"IDLE", "PLAYING", "GAME_OVER"})
    /\ [][ gameState' # gameState =>
             /\ <<gameState, gameState'>> \in
                  {<<"IDLE", "PLAYING">>, <<"PLAYING", "GAME_OVER">>,
                   <<"GAME_OVER", "PLAYING">>}
             /\ gameState' = "PLAYING" => games' = games + 1
             /\ gameState' = "GAME_OVER" => TickStep
         ]_vars

\* C32 witness: the replay is running, so each of the three transitions has
\* been taken
C32_ReplayRunning ==
    /\ gameState = "PLAYING"
    /\ games = 2
    /\ ticks > 0
    /\ ~unmounted


\* C33: a frame of the loop advances the snake by at most one cell, however
\* many speed intervals have passed since the last advance, and a frame
\* that advanced leaves lastUpdateRef at the timestamp of that frame.
C33_OneAdvancePerFrame ==
    [][ TickStep =>
          /\ snakeRef'[1] \in {snakeRef[1], ComputedHead}
          /\ Len(snakeRef') \in {Len(snakeRef), Len(snakeRef) + 1}
          /\ scoreRef' \in {scoreRef, scoreRef + 1}
          /\ AdvanceDue(clock', lastUpdateRef, scoreRef) <=> Advanced
          /\ (Advanced \/ snakeRef' # snakeRef) => lastUpdateRef' = clock'
      ]_vars

\* C33 witness: the first frame of the first run, three seconds of countdown
\* and so twelve speed intervals after lastUpdateRef, moved the head one
\* cell
C33_FirstFrameAfterCountdown ==
    /\ games = 1 /\ ticks = 1
    /\ clock > 12 * BASE_SPEED
    /\ lastUpdateRef = clock
    /\ snakeRef = <<Pos(11, 10)>>


\* C34: in a frame of the loop the direction and the smoothed vector are
\* what the smoothing and the arbitration of that frame leave, whether or
\* not updateSnake ran in it; a frame whose computed head is off the board
\* or on the snake leaves snake, food and score as they were; a frame that
\* moves to a cell other than the food leaves food and score as they were;
\* outside the frames of the loop the direction changes only to RIGHT, in
\* the step that calls startGame.
C34_UpdateSnakeTouchesOnlyItsOwn ==
    [][ /\ TickStep =>
             /\ \/ video # "ready" /\ smoothedVectorRef' = smoothedVectorRef
                \/ \E raw \in RawVectors \cup {<<0, 0>>} :
                      smoothedVectorRef' =
                        Pos(Smooth(smoothedVectorRef.x, raw[1]),
                            Smooth(smoothedVectorRef.y, raw[2]))
             /\ directionRef' =
                  IF video = "ready"
                  THEN Arbitrate(directionRef, smoothedVectorRef'.x,
                                 smoothedVectorRef'.y)
                  ELSE directionRef
        /\ (Advanced /\ (Outside(ComputedHead) \/ OnSnake(ComputedHead))) =>
             UNCHANGED <<snakeRef, foodRef, scoreRef, score>>
        /\ (Advanced /\ ~Outside(ComputedHead) /\ ~OnSnake(ComputedHead)
               /\ ComputedHead # foodRef) =>
             /\ UNCHANGED <<foodRef, scoreRef, score>>
             /\ snakeRef'[1] = ComputedHead
        /\ (~TickStep /\ directionRef' # directionRef) =>
             (games' = games + 1 /\ directionRef' = "RIGHT")
      ]_vars

\* C34 witness: a run that turned, ate once and then ended by a collision,
\* with snake and score as the last advance before the collision left them
C34_CollidedAfterTurnAndFood ==
    /\ gameState = "GAME_OVER"
    /\ directionRef # "RIGHT"
    /\ scoreRef = 1 /\ score = 1
    /\ Len(snakeRef) = 2


\* C35: where the smoothed x and the smoothed y of a tick are equal in
\* absolute value, the tick selects on the vertical axis: a direction that
\* changes becomes UP or DOWN, from LEFT or RIGHT it becomes the vertical
\* candidate as soon as the value is beyond the dead zone, and with both
\* components 0 the direction stays.
C35_TieGoesVertical ==
    (output # <<>> /\ Abs(output.smoothed.x) = Abs(output.smoothed.y)) =>
        LET s == output.smoothed
        IN  /\ output.dir # input.dir => output.dir \in {"UP", "DOWN"}
            /\ output.dir # input.dir => output.dir = CandidateOn("y", s.y)
            /\ (Abs(s.y) > THRESHOLD /\ input.dir \in {"LEFT", "RIGHT"}) =>
                 output.dir = CandidateOn("y", s.y)
            /\ (s.x = 0 /\ s.y = 0) => output.dir = input.dir

\* C35 witness: x and y are equal in absolute value and beyond the dead
\* zone, x points LEFT and y points DOWN, and the direction UP stays: the
\* tick looked at the vertical candidate only, and DOWN is the reversal
C35_TieKeepsUpAgainstLeft ==
    /\ output # <<>>
    /\ input.dir = "UP"
    /\ output.smoothed.y > THRESHOLD
    /\ output.smoothed.x = 0 - output.smoothed.y
    /\ output.dir = "UP"


\* C36: one tick that starts from the smoothed vector (0,0), as startGame
\* leaves it, gives a smoothed vector of at most 0.2 in each component for
\* every raw vector of [-1,1] x [-1,1]; 0.2 exceeds neither dead zone (0.2
\* or 0.3, both tested with >), and the direction after the tick is the one
\* before it.  The first turn of a run so takes two ticks or more.
C36_NoTurnOnFirstTick ==
    (output # <<>> /\ input.smoothed = Pos(0, 0)) =>
        /\ Abs(output.smoothed.x) * 10 <= 2 * Scale
        /\ Abs(output.smoothed.y) * 10 <= 2 * Scale
        /\ ~(Abs(output.smoothed.x) > THRESHOLD)
        /\ ~(Abs(output.smoothed.y) > THRESHOLD)
        /\ output.dir = input.dir

\* C36 witness: from (0,0) the raw vector (-1,1), the largest there is,
\* gives (-0.2, 0.2) and the direction RIGHT stays
C36_FullMotionFromRest ==
    /\ output # <<>>
    /\ input.smoothed = Pos(0, 0)
    /\ input.raw = <<0 - Scale, Scale>>
    /\ input.dir = "RIGHT"
    /\ output.smoothed = Pos(0 - (Scale \div 5), Scale \div 5)
    /\ output.dir = "RIGHT"


\* the place of the entry saved at time t in the list, 0 where it is absent
PlaceOf(list, t) ==
    IF \E i \in DOMAIN list : list[i].timestamp = t
    THEN CHOOSE i \in DOMAIN list : list[i].timestamp = t
    ELSE 0

\* C37: in the list saveScore stores, of two entries with the same score the
\* one saved earlier stands first; each entry of the list is the new entry
\* or an entry of the list before, as it was, and the entries kept stand in
\* the order they had; and where the list holds 10 entries and the new
\* score is not above the score of the last, the list stays as it was.
C37_TiesByArrivalFullBoardRefuses ==
    /\ [](\A i, j \in DOMAIN leaderboard :
            (i < j /\ leaderboard[i].score = leaderboard[j].score) =>
                leaderboard[i].timestamp < leaderboard[j].timestamp)
    /\ [][ input' # input =>
             LET entry == [name |-> playerName,
                           score |-> input'[Len(input')],
                           timestamp |-> clock']
             IN  /\ \A i \in DOMAIN leaderboard' :
                      \/ leaderboard'[i] = entry
                      \/ \E j \in DOMAIN leaderboard :
                           leaderboard[j] = leaderboard'[i]
                 /\ \A i, j \in DOMAIN leaderboard :
                      LET a == PlaceOf(leaderboard', leaderboard[i].timestamp)
                          b == PlaceOf(leaderboard', leaderboard[j].timestamp)
                      IN  (i < j /\ a > 0 /\ b > 0) => a < b
                 /\ (Len(leaderboard) = TOP_N
                       /\ leaderboard[TOP_N].score >= entry.score) =>
                      /\ leaderboard' = leaderboard
                      /\ storage' = storage
                 /\ ~(Len(leaderboard) = TOP_N
                       /\ leaderboard[TOP_N].score >= entry.score) =>
                      PlaceOf(leaderboard', clock') > 0
         ]_vars

\* C37 witness: the list holds ten entries, the first five with score 2 and
\* the last five with score 1, and a run that ended with score 1, level with
\* the last of the list, was not admitted
C37_LevelWithLastRefused ==
    /\ Len(input) = 11
    /\ input[11] = 1
    /\ Len(leaderboard) = TOP_N
    /\ leaderboard[5].score = 2 /\ leaderboard[6].score = 1
    /\ leaderboard[TOP_N].score = 1
    /\ PlaceOf(leaderboard, clock) = 0


\* the Manhattan distance of two cells
Manhattan(p, q) == Abs(p.x - q.x) + Abs(p.y - q.y)

\* C38: in every reachable state each segment of the snake lies one cell
\* left, right, above or below the segment before it, so the body is one
\* connected path from head to tail.
C38_SegmentsAdjacent ==
    \A i \in 1..(Len(snakeRef) - 1) :
        Manhattan(snakeRef[i], snakeRef[i + 1]) = 1

\* C38 witness: a snake of three segments with a bend, its head on another
\* row and another column than its tail
C38_BentSnake ==
    /\ Len(snakeRef) = 3
    /\ snakeRef[1].x # snakeRef[3].x
    /\ snakeRef[1].y # snakeRef[3].y


\* this step is an accepted start of SnakeGame.tsx
StartedLive == StartAction /\ games' = games + 1

\* what holds of the service of the commentary link whichever start made
\* it: the ref leaves null only for a service whose connect runs, in an
\* accepted start; it never returns to null and never holds a second
\* service; a start that finds a service changes neither the ref nor
\* liveState; after error or close the ref stays; and isConnecting is
\* false from the first status callback on.
OneServiceOneConnect ==
    /\ [](liveServiceRef \in {"open", "failed", "closed"} =>
            ~liveState.isConnecting)
    /\ [][ /\ liveServiceRef' # liveServiceRef =>
                 \/ /\ liveServiceRef = "null" /\ liveServiceRef' = "pending"
                    /\ StartedLive
                 \/ /\ liveServiceRef # "null"
                    /\ liveServiceRef' \in {"open", "failed", "closed"}
                    /\ ~StartAction
           /\ (StartAction /\ liveServiceRef # "null") =>
                 UNCHANGED <<liveServiceRef, liveState>>
           /\ liveServiceRef \in {"failed", "closed"} =>
                 liveServiceRef' = liveServiceRef
         ]_vars

\* C39 as stated: one service and one connect() in the lifetime of the
\* component, no new service and no retry after error or close,
\* isConnecting false from the first status callback on, and no start but
\* the first accepted one attempts a connection.
C39_OnlyFirstStartConnects ==
    /\ OneServiceOneConnect
    /\ [][ (StartedLive /\ games >= 1) =>
             UNCHANGED <<liveServiceRef, liveState>> ]_vars

\* C39 amended: one service and one connect() in the lifetime of the
\* component, no new service and no retry after error or close,
\* isConnecting false from the first status callback on, and a start
\* attempts a connection only while no service has been constructed: the
\* first accepted start, or a later one where the constructor threw in
\* every accepted start before it.
C39_StartConnectsWhileNoService ==
    /\ OneServiceOneConnect
    /\ [][ (StartedLive /\ liveServiceRef' # liveServiceRef) =>
             (liveServiceRef = "null" /\ liveState'.isConnecting) ]_vars
    /\ [][ (StartedLive /\ games >= 1 /\ liveServiceRef = "null") =>
             liveState.isConnecting ]_vars

\* C39 witness: the connection failed in the first run, and the replay is
\* running with the failed service still in the ref and nothing pending
C39_ReplayedAfterFailure ==
    /\ liveServiceRef = "failed"
    /\ liveState = [isConnected |-> FALSE, isConnecting |-> FALSE,
                    error |-> "Connection Failed"]
    /\ games = 2
    /\ gameState = "PLAYING"

=============================================================================
